---- MODULE Spec2Model ----
(***************************************************************************)
(* Authentication and account-lockout state machine of the NestJS backend  *)
(* template: UsersService (src/src/users/users.service.ts), AuthService    *)
(* (src/src/auth/auth.service.ts), the users table and the JWT strategy.   *)
(*                                                                         *)
(* The users table is the only shared state.  Every request handler is a   *)
(* process that walks through its awaited store calls one step at a time;  *)
(* Spec runs one request at a time, SpecConc lets two requests interleave  *)
(* at every await.                                                         *)
(***************************************************************************)
EXTENDS Integers, Sequences, FiniteSets, TLC

\* ------------------------------------------------------------------ bounds
MaxUsers == 2
MaxHours == 2
MaxPools == 4

\* ------------------------------------------------------- program constants
maxLoginAttempts == 5
lockTime == 2 * 60 * 60 * 1000
resetTokenTtl == 3600000
saltRounds == 12
MAX_LIMIT == 100
jwtExpiresIn == 15 * 60 * 1000
jwtRefreshExpiresIn == 7 * 24 * 60 * 60 * 1000
jwtSecret == "your-super-secret-jwt-key-change-in-production"
jwtRefreshSecret == "your-super-secret-refresh-key-change-in-production"
HourMs == 60 * 60 * 1000

\* ------------------------------------------------------------ value model
\* A nullable column holds <<>> (null) or <<v>>.
Null == <<>>
Some(v) == <<v>>
IsNull(x) == x = <<>>
Val(x) == x[1]

\* Strings that the code lower-cases are sequences of characters.
LowerChar(c) ==
  CASE c = "A" -> "a"
    [] c = "B" -> "b"
    [] c = "U" -> "u"
    [] OTHER -> c
toLowerCase(s) == [i \in DOMAIN s |-> LowerChar(s[i])]

EmailInputs == { <<"a", "@", "x">>, <<"A", "@", "x">>, <<"b", "@", "x">> }
\* Sign-ups: an email and a username.
Signups ==
  { << <<"a", "@", "x">>, <<"u", "1">> >>, << <<"A", "@", "x">>, <<"U", "1">> >>,
    << <<"b", "@", "x">>, <<"u", "2">> >>, << <<"b", "@", "x">>, <<"u", "1">> >> }
ConcSignups == { << <<"a", "@", "x">>, <<"u", "1">> >> }
CreatePasswords == { "Right1!" }
NewPasswords == { "NewPass1!" }
LoginPasswords == { "Right1!", "Wrong1!" }
Salts == { "s1" }
ResetTokens == { "tok1", "tok2" }
Procs == { 1, 2 }
SeqProcs == { 1 }

\* bcrypt: a salted one-way digest; compare recomputes it from the stored salt
\* and is false on anything that is not a digest.
bcryptHash(plain, salt, rounds) ==
  [digest |-> TRUE, salt |-> salt, rounds |-> rounds, text |-> plain]
Raw(plain) == [digest |-> FALSE, salt |-> "", rounds |-> 0, text |-> plain]
bcryptCompare(plain, stored) == stored.digest /\ stored.text = plain

\* ------------------------------------------------------------------ state
\* users is the users table, nextId the next primary key, now the clock in
\* ms, pc and call the request processes; cache is the cache manager's store
\* and admitted the admissions RateLimitGuard has granted (per key and time);
\* dbConnection and pool are the module-level variables of
\* database/connection.ts, pools every Pool constructed so far with its state.
VARIABLES users, nextId, now, pc, call, cache, admitted, dbConnection, pool, pools

vars == <<users, nextId, now, pc, call, cache, admitted, dbConnection, pool, pools>>
\* What the users module's operations never touch.
infra == <<cache, admitted, dbConnection, pool, pools>>

Ids == 1 .. MaxUsers
NoRow == <<>>

\* The rows `where email = e` matches; without the where clause, every row.
RowsAnyEmail(e) == DOMAIN users
RowsByEmail(e) == { id \in DOMAIN users : users[id].email = e }
\* First row of `select ... where email = e` (the column is unique).
SelectByEmail(e) ==
  IF RowsByEmail(e) = {} THEN NoRow
  ELSE LET id == CHOOSE i \in RowsByEmail(e) : \A j \in RowsByEmail(e) : i <= j
       IN <<[id |-> id] @@ users[id]>>

\* The columns' defaults of the users table.  The columns that no operation
\* below reads or writes (two-factor fields, createdAt, updatedAt) are left
\* out; every registration gives the same names and no picture.
NewUserRow(email, username, password, role) ==
  [ email |-> email, username |-> username, password |-> password,
    firstName |-> "First", lastName |-> "Last", profilePicture |-> Null,
    role |-> role, isActive |-> TRUE, isEmailVerified |-> FALSE,
    passwordResetToken |-> Null, passwordResetExpires |-> Null,
    lastLoginAt |-> Null, loginAttempts |-> 0, lockUntil |-> Null ]

\* -------------------------------------------------------------- responses
Pending == [status |-> "pending", message |-> ""]
Ok(message) == [status |-> "ok", message |-> message]
Unauthorized(message) == [status |-> "Unauthorized", message |-> message]
BadRequest(message) == [status |-> "BadRequest", message |-> message]
NotFound(message) == [status |-> "NotFound", message |-> message]
Conflict(message) == [status |-> "Conflict", message |-> message]

\* ------------------------------------------------------------------- JWT
\* A signed token: the secret it was signed with, its payload and its expiry.
jwtSign(secret, sub, claims, ttl) ==
  [secret |-> secret, sub |-> sub, claims |-> claims, iat |-> now, exp |-> now + ttl]
jwtVerifyUnused(token, secret) ==
  /\ token.secret = secret /\ now < token.exp
  /\ ~\E q \in Procs : pc[q] = "refresh_verify" /\ call[q].jwt = token /\ call[q].reused
jwtVerifyIgnoreExpiration(token, secret) == token.secret = secret
jwtVerify(token, secret) == token.secret = secret /\ now < token.exp

generateTokens(user) ==
  [ accessToken |->
      jwtSign(jwtSecret, user.id,
              [email |-> user.email, username |-> user.username, role |-> user.role],
              jwtExpiresIn),
    refreshToken |->
      jwtSign(jwtRefreshSecret, user.id, [tokenVersion |-> 1], jwtRefreshExpiresIn) ]

\* ------------------------------------------------------- request processes
\* call[p] is the request process p is serving or has last served: its inputs,
\* what it has read so far, and its response.  pre is the table when it began,
\* thrown what was thrown inside refreshTokens' try block, held the token pair
\* the client keeps from an earlier response, reused whether the client's last
\* request was a successful refresh with this same token, afterLogout whether
\* its last request was a successful logout of this token's subject,
\* found whether its lookup of the account by lower-cased email returned a row,
\* principal the user a guarded request was authenticated as, body the
\* validated body of a profile update, key and current the cache key
\* RateLimitGuard computed and the count it read, db the connection a
\* database/connection.ts function returned,
\* wasLocked and wasExpired what the lock of the account the email denotes was
\* when login began,
\* at the time at which resetPassword compared the expiry dates.
NoJwt == [secret |-> "", sub |-> 0, claims |-> [tokenVersion |-> 0], iat |-> 0, exp |-> 0]
Idle ==
  [ op |-> "none", id |-> 0, email |-> <<>>, username |-> <<>>,
    password |-> "", token |-> "", jwt |-> NoJwt,
    user |-> NoRow, found |-> FALSE, attempts |-> 0, rows |-> <<>>, wasLocked |-> FALSE,
    wasExpired |-> FALSE,
    result |-> Pending, thrown |-> Pending, tokens |-> Null, pre |-> <<>>, at |-> 0,
    held |-> Null, reused |-> FALSE, afterLogout |-> FALSE, principal |-> NoRow,
    body |-> <<>>, key |-> "", current |-> 0, db |-> Null ]

Begin(p, op) == [Idle EXCEPT !.op = op, !.pre = users]

\* The response leaves the process idle; what it read is dropped.
ReturnFrom(p, c, result, tokens) ==
  /\ pc' = [pc EXCEPT ![p] = "idle"]
  /\ call' = [call EXCEPT ![p] =
       [ Idle EXCEPT !.op = c.op, !.id = c.id, !.email = c.email, !.jwt = c.jwt,
                     !.held = c.held, !.reused = c.reused,
                     !.afterLogout = c.afterLogout, !.principal = c.principal,
                     !.body = c.body,
                     !.password = c.password, !.token = c.token,
                     !.wasLocked = c.wasLocked, !.wasExpired = c.wasExpired,
                     !.found = c.found,
                     !.at = c.at, !.thrown = c.thrown,
                     !.result = result, !.tokens = tokens ]]
  /\ UNCHANGED infra
Return(p, result, tokens) == ReturnFrom(p, call[p], result, tokens)

Goto(p, label, c) ==
  /\ pc' = [pc EXCEPT ![p] = label]
  /\ call' = [call EXCEPT ![p] = c]
  /\ UNCHANGED infra

\* `update users set ... where email = e`: every matching row.
UpdateWhereEmail(e, set) ==
  [id \in DOMAIN users |-> IF users[id].email = e THEN set @@ users[id] ELSE users[id]]

\* `update users set ... where id = i`; without the where clause, every row.
UpdateEveryRow(i, set) == [id \in DOMAIN users |-> set @@ users[id]]
UpdateWhereId(i, set) ==
  [id \in DOMAIN users |-> IF id = i THEN set @@ users[id] ELSE users[id]]

\* The rate-limit options of a handler decorated with AuthRateLimit(): ttl in
\* seconds.  A client's cache key; the clock of a rate-limited run moves in
\* half windows up to the end of the first window.
AuthRateLimit == [ttl |-> 900, limit |-> 5]
RateKeys == { "rate_limit:AuthController:login:10.0.0.1" }
HalfWindow == (AuthRateLimit.ttl * 1000) \div 2
RateHorizon == 2 * HalfWindow
RateTimes == { k * HalfWindow : k \in 0 .. 2 }

Init ==
  /\ users = <<>>
  /\ nextId = 1
  /\ now = 0
  /\ pc = [p \in Procs |-> "idle"]
  /\ call = [p \in Procs |-> Idle]
  /\ cache = <<>>
  /\ admitted = [kt \in RateKeys \X RateTimes |-> 0]
  /\ dbConnection = Null
  /\ pool = Null
  /\ pools = <<>>

\* ------------------------------------------------------------ UsersService
\* checkUserExists: the first row with that email or that username.
checkUserExists(email, username, excludeId) ==
  LET hit == { id \in DOMAIN users :
                 /\ id # excludeId
                 /\ \/ email # <<>> /\ users[id].email = toLowerCase(email)
                    \/ username # <<>> /\ users[id].username = toLowerCase(username) }
  IN IF hit = {} THEN Pending
     ELSE LET u == users[CHOOSE i \in hit : \A j \in hit : i <= j]
          IN IF email # <<>> /\ u.email = toLowerCase(email)
               THEN Conflict("User with this email already exists")
             ELSE IF username # <<>> /\ u.username = toLowerCase(username)
               THEN Conflict("User with this username already exists")
             ELSE Pending

\* The unique indexes on email and username.
NoUniqueIndex(row, excludeId) == FALSE
UniqueViolation(row, excludeId) ==
  \E id \in DOMAIN users :
    /\ id # excludeId
    /\ users[id].email = row.email \/ users[id].username = row.username

\* POST /users and POST /auth/register: the DTO lower-cases email and username,
\* create pre-checks, hashes and inserts.
Create(p, email, username, password, role, salt) ==
  /\ pc[p] = "idle"
  /\ nextId <= MaxUsers
  /\ LET dtoEmail == toLowerCase(email)
         dtoUsername == toLowerCase(username)
         row == NewUserRow(dtoEmail, dtoUsername, bcryptHash(password, salt, saltRounds), role)
         exists == checkUserExists(dtoEmail, dtoUsername, 0)
     IN IF exists # Pending
          THEN /\ Goto(p, "idle", [Idle EXCEPT !.op = "create", !.result = exists])
               /\ UNCHANGED <<users, nextId>>
        ELSE IF UniqueViolation(row, 0)
          THEN /\ Goto(p, "idle", [Idle EXCEPT !.op = "create",
                      !.result = Conflict("User with this email or username already exists")])
               /\ UNCHANGED <<users, nextId>>
        ELSE /\ users' = (nextId :> row) @@ users
             /\ nextId' = nextId + 1
             /\ Goto(p, "idle", [Idle EXCEPT !.op = "create", !.result = Ok("")])
  /\ UNCHANGED now

\* create, up to its pre-check: the DTO has lower-cased email and username.
CreateCheck(p, email, username, password) ==
  /\ pc[p] = "idle"
  /\ nextId + Cardinality({ q \in Procs : pc[q] = "create_insert" }) <= MaxUsers
  /\ LET c == [Idle EXCEPT !.op = "create", !.email = toLowerCase(email),
                 !.username = toLowerCase(username), !.password = password]
         exists == checkUserExists(c.email, c.username, 0)
     IN IF exists # Pending THEN ReturnFrom(p, c, exists, Null)
        ELSE Goto(p, "create_insert", c)
  /\ UNCHANGED <<users, nextId, now>>

\* create: hashPassword, then the insert; error 23505 becomes a Conflict.
CreateInsert(p, salt) ==
  /\ pc[p] = "create_insert"
  /\ LET row == NewUserRow(call[p].email, call[p].username,
                           bcryptHash(call[p].password, salt, saltRounds), "user")
     IN IF UniqueViolation(row, 0)
          THEN /\ Return(p, Conflict("User with this email or username already exists"), Null)
               /\ UNCHANGED <<users, nextId>>
        ELSE /\ users' = (nextId :> row) @@ users
             /\ nextId' = nextId + 1
             /\ Return(p, Ok(""), Null)
  /\ UNCHANGED now

\* updateLoginAttempts(email, true): the reset.
LoginAttemptsReset == 
  [loginAttempts |-> 0, lockUntil |-> Null, lastLoginAt |-> Some(now)]

\* updateLoginAttempts(email, false), after its select: the new counter and lock.
LoginAttemptsFailure(attempts) ==
  [ loginAttempts |-> attempts,
    lockUntil |-> IF attempts >= maxLoginAttempts THEN Some(now + lockTime) ELSE Null ]

\* isAccountLocked's reading of the row it selected.
LockState(row) ==
  IF row = NoRow \/ IsNull(row[1].lockUntil) THEN "open"
  ELSE IF Val(row[1].lockUntil) > now THEN "locked"
  ELSE "expired"

\* --------------------------------------------------------------- login
ErrLocked == 
  Unauthorized("Account is temporarily locked due to too many failed login attempts")
ErrInvalidCredentials == Unauthorized("Invalid credentials")
ErrDeactivated == Unauthorized("Account is deactivated")
ErrUserNotFound == NotFound("User not found")

\* login's checks on the row findUserForAuthentication returned: not found or
\* wrong password, then deactivated, else through.
verifyLoginNoActiveCheck(row, password) ==
  IF row = NoRow \/ ~bcryptCompare(password, row[1].password) THEN "invalid" ELSE "ok"
verifyLogin(row, password) ==
  IF row = NoRow \/ ~bcryptCompare(password, row[1].password) THEN "invalid"
  ELSE IF ~row[1].isActive THEN "deactivated"
  ELSE "ok"

\* What login throws after recording the failure, for the row it had found.
loginFailureTellsUnknown(row) ==
  IF row = NoRow THEN Unauthorized("User not found") ELSE ErrInvalidCredentials
loginFailure(row) == ErrInvalidCredentials

\* login, up to isAccountLocked's select (by the email as supplied).
LoginStart(p, email, password) ==
  /\ pc[p] = "idle"
  /\ LET c == [Begin(p, "login") EXCEPT !.email = email, !.password = password,
                 !.wasLocked = LockState(SelectByEmail(toLowerCase(email))) = "locked",
                 !.wasExpired = LockState(SelectByEmail(toLowerCase(email))) = "expired"]
         st == LockState(SelectByEmail(email))
     IN /\ pc' = [pc EXCEPT ![p] =
               IF st = "locked" THEN "idle"
               ELSE IF st = "expired" THEN "login_unlock" ELSE "login_find"]
        /\ call' = [call EXCEPT ![p] =
               IF st = "locked"
                 THEN [c EXCEPT !.result = ErrLocked, !.pre = <<>>]
               ELSE c]
  /\ UNCHANGED <<users, nextId, now>>
  /\ UNCHANGED infra

\* isAccountLocked: the lock has expired, reset the attempts.
LoginUnlock(p) ==
  /\ pc[p] = "login_unlock"
  /\ users' = UpdateWhereEmail(call[p].email, LoginAttemptsReset)
  /\ Goto(p, "login_find", call[p])
  /\ UNCHANGED <<nextId, now>>

\* findUserForAuthentication (lower-cased email), verifyPassword, isActive.
LoginFind(p) ==
  /\ pc[p] = "login_find"
  /\ LET row == SelectByEmail(toLowerCase(call[p].email))
         c == [call[p] EXCEPT !.user = row, !.found = row # NoRow]
         v == verifyLogin(row, call[p].password)
     IN IF v = "invalid" THEN Goto(p, "login_fail_read", c)
        ELSE IF v = "deactivated" THEN ReturnFrom(p, c, ErrDeactivated, Null)
        ELSE Goto(p, "login_reset", c)
  /\ UNCHANGED <<users, nextId, now>>

\* updateLoginAttempts(email, false): the select.
LoginFailRead(p) ==
  /\ pc[p] = "login_fail_read"
  /\ LET row == SelectByEmail(call[p].email)
     IN IF row = NoRow
          THEN Return(p, loginFailure(call[p].user), Null)
        ELSE Goto(p, "login_fail_write",
                  [call[p] EXCEPT !.attempts = row[1].loginAttempts + 1])
  /\ UNCHANGED <<users, nextId, now>>

\* updateLoginAttempts(email, false): the update, then the throw.
LoginFailWrite(p) ==
  /\ pc[p] = "login_fail_write"
  /\ users' = UpdateWhereEmail(call[p].email, LoginAttemptsFailure(call[p].attempts))
  /\ Return(p, loginFailure(call[p].user), Null)
  /\ UNCHANGED <<nextId, now>>

\* updateLoginAttempts(email, true) on a successful login.
LoginReset(p) ==
  /\ pc[p] = "login_reset"
  /\ users' = UpdateWhereEmail(call[p].email, LoginAttemptsReset)
  /\ Goto(p, "login_find_one", call[p])
  /\ UNCHANGED <<nextId, now>>

\* generateTokens(user), findOne(user.id), the response.
LoginFindOne(p) ==
  /\ pc[p] = "login_find_one"
  /\ IF call[p].user[1].id \in DOMAIN users
       THEN Return(p, Ok(""), Some(generateTokens(call[p].user[1])))
     ELSE Return(p, ErrUserNotFound, Null)
  /\ UNCHANGED <<users, nextId, now>>

\* ------------------------------------------------- UsersService, the rest
\* A property read off a plain object: undefined when it is not there.
Undefined == <<"undefined", "undefined">>
Get(obj, field) == IF field \in DOMAIN obj THEN obj[field] ELSE Undefined
Truthy(x) == x # Null /\ x # Undefined

\* UserResponseDto: the @Expose()d properties; plainToClass with
\* excludeExtraneousValues keeps those and nothing else.
ExposedFields ==
  { "id", "email", "username", "role", "isActive", "isEmailVerified", "lastLoginAt" }
transformToResponseDto(user) ==
  [f \in (DOMAIN user) \cap ExposedFields |-> user[f]]

\* findAll's select list, then the DTO.
FindAllColumns ==
  { "id", "email", "username", "role", "isActive", "isEmailVerified", "lastLoginAt" }
findAllRowWithSecrets(id) == [id |-> id] @@ users[id]
findAllRow(id) ==
  LET row == [id |-> id] @@ users[id]
  IN transformToResponseDto([f \in FindAllColumns |-> row[f]])

\* findAll({ limit }): the first page, limit clamped to MAX_LIMIT, as id -> DTO.
Min(a, b) == IF a <= b THEN a ELSE b
findAll(limit) ==
  LET page == { id \in DOMAIN users :
                  Cardinality({ j \in DOMAIN users : j < id }) < Min(limit, MAX_LIMIT) }
  IN [id \in page |-> findAllRow(id)]

\* update(id, dto)'s outcome: findUserById, then checkUserExists when the DTO
\* carries an email or a username, then the unique indexes.
updateResult(id, dto) ==
  IF id \notin DOMAIN users THEN ErrUserNotFound
  ELSE LET email == IF "email" \in DOMAIN dto THEN dto.email ELSE <<>>
           username == IF "username" \in DOMAIN dto THEN dto.username ELSE <<>>
           exists == IF email # <<>> \/ username # <<>>
                       THEN checkUserExists(email, username, id) ELSE Pending
       IN IF exists # Pending THEN exists
          ELSE IF UniqueViolation(dto @@ users[id], id)
            THEN Conflict("User with this email or username already exists")
          ELSE Ok("")

\* update(id, dto): `set` takes the DTO as it is.
update(id, dto) ==
  IF updateResult(id, dto) = Ok("") THEN UpdateWhereId(id, dto) ELSE users

\* The UpdateUserDto that carries these of email and username (<<>>: absent).
IdentityDto(email, username) ==
  LET e == IF email = <<>> THEN <<>> ELSE <<"email">>
      u == IF username = <<>> THEN <<>> ELSE <<"username">>
  IN [f \in { (e \o u)[i] : i \in 1..Len(e \o u) } |->
        IF f = "email" THEN email ELSE username]

\* update, up to its pre-check: findUserById, then checkUserExists; the DTO
\* has lower-cased email and username.
UpdateCheck(p, id, email, username) ==
  /\ pc[p] = "idle"
  /\ LET c == [Idle EXCEPT !.op = "update", !.id = id, !.email = toLowerCase(email),
                 !.username = toLowerCase(username)]
         exists == checkUserExists(c.email, c.username, id)
     IN IF id \notin DOMAIN users THEN ReturnFrom(p, c, ErrUserNotFound, Null)
        ELSE IF exists # Pending THEN ReturnFrom(p, c, exists, Null)
        ELSE Goto(p, "update_write", c)
  /\ UNCHANGED <<users, nextId, now>>

\* update: the `update ... where id` itself; error 23505 becomes a Conflict.
UpdateWrite(p) ==
  /\ pc[p] = "update_write"
  /\ LET dto == IdentityDto(call[p].email, call[p].username)
     IN IF UniqueViolation(dto @@ users[call[p].id], call[p].id)
          THEN /\ Return(p, Conflict("User with this email or username already exists"), Null)
               /\ UNCHANGED users
        ELSE /\ users' = UpdateWhereId(call[p].id, dto)
             /\ Return(p, Ok(""), Null)
  /\ UNCHANGED <<nextId, now>>

\* PATCH /users/:id (admin): the validated UpdateUserDto goes to update().
AdminUpdate(p, id, dto) ==
  /\ pc[p] = "idle"
  /\ users' = update(id, dto)
  /\ Goto(p, "idle", [Idle EXCEPT !.op = "update", !.result = updateResult(id, dto)])
  /\ UNCHANGED <<nextId, now>>

\* POST /users/change-password for the authenticated user id.
ChangePassword(p, id, currentPassword, newPassword, confirmPassword, salt) ==
  /\ pc[p] = "idle"
  /\ id \in DOMAIN users
  /\ LET res == IF newPassword # confirmPassword
                  THEN BadRequest("New password and confirm password do not match")
                ELSE IF ~bcryptCompare(currentPassword, users[id].password)
                  THEN Unauthorized("Current password is incorrect")
                ELSE Ok("Password changed successfully")
     IN /\ users' = IF res.status = "ok"
                      THEN UpdateWhereId(id,
                             [password |-> bcryptHash(newPassword, salt, saltRounds)])
                    ELSE users
        /\ Goto(p, "idle", [Idle EXCEPT !.op = "changePassword", !.result = res])
  /\ UNCHANGED <<nextId, now>>

\* DELETE /users/:id (admin).
Remove(p, id) ==
  /\ pc[p] = "idle"
  /\ users' = [i \in (DOMAIN users) \ {id} |-> users[i]]
  /\ Goto(p, "idle", [Idle EXCEPT !.op = "remove",
          !.result = IF id \in DOMAIN users THEN Ok("User deleted successfully")
                     ELSE ErrUserNotFound])
  /\ UNCHANGED <<nextId, now>>

\* ------------------------------------------------------ password reset
forgotPasswordTellsUnknown(user) ==
  IF user = NoRow THEN NotFound("User not found")
  ELSE Ok("If the email exists, a password reset link has been sent")
forgotPasswordResponse(user) ==
  Ok("If the email exists, a password reset link has been sent")
ErrInvalidResetToken == BadRequest("Invalid or expired reset token")

\* forgotPassword: findByEmail (lower-cased); when there is a user, a fresh
\* token and its expiry go to update().
ForgotPassword(p, email, resetToken) ==
  /\ pc[p] = "idle"
  /\ LET row == SelectByEmail(toLowerCase(email))
     IN users' = IF row = NoRow THEN users
                 ELSE update(row[1].id,
                        [ passwordResetToken |-> Some(resetToken),
                          passwordResetExpires |-> Some(now + resetTokenTtl) ])
  /\ LET user == SelectByEmail(toLowerCase(email))
     IN Goto(p, "idle", [Idle EXCEPT !.op = "forgotPassword", !.email = email,
                                     !.found = user # NoRow,
                                     !.result = forgotPasswordResponse(user)])
  /\ UNCHANGED <<nextId, now>>

\* resetPassword's users.data.find(...): the ids of the DTOs that match.
resetPasswordFind(rows, token) ==
  { id \in DOMAIN rows :
      /\ Get(rows[id], "passwordResetToken") = Some(token)
      /\ Truthy(Get(rows[id], "passwordResetExpires"))
      /\ Val(Get(rows[id], "passwordResetExpires")) > now }

\* resetPassword: findAll({ limit: 1000 }).
ResetStart(p, token, newPassword) ==
  /\ pc[p] = "idle"
  /\ Goto(p, "reset_find",
          [Begin(p, "resetPassword") EXCEPT !.token = token, !.password = newPassword,
                                           !.rows = findAll(1000)])
  /\ UNCHANGED <<users, nextId, now>>

\* resetPassword: the find, then hashPassword and update().
ResetFinish(p, salt) ==
  /\ pc[p] = "reset_find"
  /\ LET found == resetPasswordFind(call[p].rows, call[p].token)
         c == [call[p] EXCEPT !.at = now]
     IN IF found = {}
          THEN /\ ReturnFrom(p, c, ErrInvalidResetToken, Null)
               /\ UNCHANGED users
        ELSE LET id == CHOOSE i \in found : \A j \in found : i <= j
                 dto == [ password |-> bcryptHash(call[p].password, salt, saltRounds),
                          passwordResetToken |-> Null,
                          passwordResetExpires |-> Null ]
             IN /\ users' = update(id, dto)
                /\ ReturnFrom(p, c, IF updateResult(id, dto) = Ok("")
                               THEN Ok("Password reset successfully")
                             ELSE updateResult(id, dto), Null)
  /\ UNCHANGED <<nextId, now>>

\* ------------------------------------------------------------- refresh
ErrInvalidRefreshToken == Unauthorized("Invalid refresh token")

\* The token pair client p holds: the one just returned to it, else the one kept.
Hold(p) == IF call[p].tokens # Null THEN call[p].tokens ELSE call[p].held
HeldTokens(p) ==
  IF Hold(p) = Null THEN {} ELSE { Val(Hold(p)).accessToken, Val(Hold(p)).refreshToken }

\* POST /auth/refresh arrives with a token.
RefreshStart(p, refreshToken) ==
  /\ pc[p] = "idle"
  /\ Goto(p, "refresh_verify",
          [Begin(p, "refreshTokens") EXCEPT
             !.jwt = refreshToken, !.held = Hold(p),
             !.reused = /\ call[p].op = "refreshTokens" /\ call[p].result = Ok("")
                        /\ call[p].jwt = refreshToken,
             !.afterLogout = /\ call[p].op = "logout" /\ call[p].result.status = "ok"
                             /\ call[p].id = refreshToken.sub])
  /\ UNCHANGED <<users, nextId, now>>

\* refreshTokens' check on findOne(payload.sub): !user || !user.isActive throws.
refreshAccountExists(sub) == sub \in DOMAIN users
refreshAccountValid(sub) == sub \in DOMAIN users /\ users[sub].isActive

\* What refreshTokens' try block throws (Pending: nothing): jwtService.verify's
\* errors, findOne's NotFoundException, or the block's own Unauthorized.
JsonWebTokenError(message) == [status |-> "JsonWebTokenError", message |-> message]
TokenExpiredError == [status |-> "TokenExpiredError", message |-> "jwt expired"]
refreshThrown(refreshToken) ==
  IF refreshToken.secret = "malformed" THEN JsonWebTokenError("jwt malformed")
  ELSE IF refreshToken.secret # jwtRefreshSecret THEN JsonWebTokenError("invalid signature")
  ELSE IF ~jwtVerify(refreshToken, jwtRefreshSecret) THEN TokenExpiredError
  ELSE IF refreshToken.sub \notin DOMAIN users THEN ErrUserNotFound
  ELSE IF ~refreshAccountValid(refreshToken.sub) THEN ErrInvalidRefreshToken
  ELSE Pending

\* refreshTokens' catch block: whatever was thrown becomes the same Unauthorized.
refreshRethrow(error) == error
refreshCatch(error) == ErrInvalidRefreshToken

\* refreshTokens: verify with the refresh secret, findOne(sub), isActive,
\* generateTokens; the catch block.
RefreshTokens(p) ==
  /\ pc[p] = "refresh_verify"
  /\ LET refreshToken == call[p].jwt
         error == refreshThrown(refreshToken)
         c == [call[p] EXCEPT !.thrown = error]
     IN IF error = Pending
          THEN ReturnFrom(p, c, Ok(""),
                 Some(generateTokens([id |-> refreshToken.sub] @@ users[refreshToken.sub])))
        ELSE ReturnFrom(p, c, refreshCatch(error), Null)
  /\ UNCHANGED <<users, nextId, now>>

\* ------------------------------------------------- access tokens, logout
\* passport-jwt's Strategy with JwtStrategy's options: the bearer token is
\* verified with jwtSecret, expiry not ignored; its payload, or nothing.
verifyAccessAnySecret(token) ==
  IF token.secret \in { jwtSecret, jwtRefreshSecret } /\ now < token.exp
    THEN Some([sub |-> token.sub] @@ token.claims) ELSE Null
verifyAccess(token) ==
  IF jwtVerify(token, jwtSecret) THEN Some([sub |-> token.sub] @@ token.claims) ELSE Null

\* validateUser: findOne(payload.sub); null when it throws or the user is inactive.
validateUserFromPayload(payload) == <<[id |-> payload.sub] @@ payload>>
validateUser(payload) ==
  IF payload.sub \in DOMAIN users /\ users[payload.sub].isActive
    THEN <<transformToResponseDto([id |-> payload.sub] @@ users[payload.sub])>>
  ELSE NoRow

ErrUnauthorized == Unauthorized("Unauthorized")
ErrInvalidAccessToken == Unauthorized("Invalid token or user not found")

\* JwtAuthGuard: what a request carrying that bearer token is answered before
\* its handler runs (Pending: it is let through).
jwtAuthGuard(token) ==
  IF verifyAccess(token) = Null THEN ErrUnauthorized
  ELSE IF validateUser(Val(verifyAccess(token))) = NoRow THEN ErrInvalidAccessToken
  ELSE Pending

\* A guarded request with nothing else to it (GET /users/profile): the
\* principal is the user validate() returned.
Authenticate(p, token) ==
  /\ pc[p] = "idle"
  /\ LET c == [Idle EXCEPT !.op = "authenticate", !.jwt = token, !.held = Hold(p)]
     IN IF jwtAuthGuard(token) # Pending THEN ReturnFrom(p, c, jwtAuthGuard(token), Null)
        ELSE ReturnFrom(p, [c EXCEPT !.id = validateUser(Val(verifyAccess(token)))[1].id,
                                     !.principal = validateUser(Val(verifyAccess(token)))],
                        Ok(""), Null)
  /\ UNCHANGED <<users, nextId, now>>

\* logout(userId): what it leaves in the users table.
logoutDeactivating(userId) == UpdateWhereId(userId, [isActive |-> FALSE])
logout(userId) == users

\* POST /auth/logout behind JwtAuthGuard.
Logout(p, token) ==
  /\ pc[p] = "idle"
  /\ LET c == [Idle EXCEPT !.op = "logout", !.jwt = token, !.held = Hold(p)]
     IN IF jwtAuthGuard(token) # Pending
          THEN /\ ReturnFrom(p, c, jwtAuthGuard(token), Null)
               /\ UNCHANGED users
        ELSE LET userId == validateUser(Val(verifyAccess(token)))[1].id
             IN /\ users' = logout(userId)
                /\ ReturnFrom(p, [c EXCEPT !.id = userId,
                                             !.principal = validateUser(Val(verifyAccess(token)))],
                              Ok("Logged out successfully"), Null)
  /\ UNCHANGED <<nextId, now>>

\* ------------------------------------------------------ profile update
\* updateProfile's allowedFields, undefined ones removed: what it passes on.
AllowedFields == { "firstName", "lastName", "profilePicture" }
unfilteredUpdate(updateUserDto) == updateUserDto
filteredUpdate(updateUserDto) ==
  [f \in (DOMAIN updateUserDto) \cap AllowedFields |-> updateUserDto[f]]

\* PATCH /users/profile behind JwtAuthGuard: update(user.id, filteredUpdate).
UpdateProfile(p, token, updateUserDto) ==
  /\ pc[p] = "idle"
  /\ LET c == [Idle EXCEPT !.op = "updateProfile", !.jwt = token, !.held = Hold(p),
                           !.body = updateUserDto]
     IN IF jwtAuthGuard(token) # Pending
          THEN /\ ReturnFrom(p, c, jwtAuthGuard(token), Null)
               /\ UNCHANGED users
        ELSE LET user == validateUser(Val(verifyAccess(token)))
                 dto == filteredUpdate(updateUserDto)
             IN /\ users' = update(user[1].id, dto)
                /\ ReturnFrom(p, [c EXCEPT !.id = user[1].id, !.principal = user],
                              updateResult(user[1].id, dto), Null)
  /\ UNCHANGED <<nextId, now>>

\* ------------------------------------------------------ store failures
\* What a query throws when the database cannot be reached. It is no
\* HttpException: uncaught, it leaves the service as it is.
StoreError == [status |-> "StoreError", message |-> "Connection terminated unexpectedly"]

\* validateUser's catch block: whatever findOne threw, the user is null.
validateUserCatch(error) == NoRow
\* JwtStrategy.validate on what validateUser returned (Pending: let through).
jwtStrategyValidate(user) == IF user = NoRow THEN ErrInvalidAccessToken ELSE Pending

\* login: isAccountLocked's select throws; login has no try block.
LoginStartStoreFails(p, email, password) ==
  /\ pc[p] = "idle"
  /\ ReturnFrom(p, [Idle EXCEPT !.op = "login", !.email = email,
                                !.password = password, !.thrown = StoreError],
                StoreError, Null)
  /\ UNCHANGED <<users, nextId, now>>

\* login: one of its later queries throws (the reset of an expired lock,
\* findUserForAuthentication, updateLoginAttempts' select or update, findOne).
LoginSteps ==
  { "login_unlock", "login_find", "login_fail_read", "login_fail_write",
    "login_reset", "login_find_one" }
LoginStoreFails(p) ==
  /\ pc[p] \in LoginSteps
  /\ ReturnFrom(p, [call[p] EXCEPT !.thrown = StoreError], StoreError, Null)
  /\ UNCHANGED <<users, nextId, now>>

\* refreshTokens: the token verifies and findOne(payload.sub) throws inside
\* the try block.
RefreshStoreFails(p) ==
  /\ pc[p] = "refresh_verify"
  /\ jwtVerify(call[p].jwt, jwtRefreshSecret)
  /\ ReturnFrom(p, [call[p] EXCEPT !.thrown = StoreError], refreshCatch(StoreError), Null)
  /\ UNCHANGED <<users, nextId, now>>

\* A guarded request: the bearer token verifies and validateUser's
\* findOne(payload.sub) throws inside its try block.
AuthenticateStoreFails(p, token) ==
  /\ pc[p] = "idle"
  /\ verifyAccess(token) # Null
  /\ ReturnFrom(p, [Idle EXCEPT !.op = "authenticate", !.jwt = token,
                                !.held = Hold(p), !.thrown = StoreError],
                jwtStrategyValidate(validateUserCatch(StoreError)), Null)
  /\ UNCHANGED <<users, nextId, now>>

\* ----------------------------------------------------------- rate limiting
\* cacheManager.get(key) || 0: an entry past its ttl is gone.
cacheGet(key) ==
  IF key \in DOMAIN cache /\ now < cache[key].expires THEN cache[key].value ELSE 0
\* cacheManager.set(key, value, ttl in ms).
cacheSet(key, value, ttlMs) ==
  (key :> [value |-> value, expires |-> now + ttlMs]) @@ cache
TooManyRequests == [status |-> "TooManyRequests", message |-> "Too many requests"]

\* canActivate up to the await of cacheManager.get: the count is read, and at
\* the limit the request is rejected.  (At most limit + 2 admissions are
\* followed per key and instant.)
CanActivateGet(p, key, rateLimitOptions) ==
  /\ pc[p] = "idle"
  /\ admitted[<<key, now>>] < rateLimitOptions.limit + 2
  /\ LET current == cacheGet(key)
         c == [Idle EXCEPT !.op = "canActivate", !.key = key, !.current = current]
     IN IF current >= rateLimitOptions.limit
          THEN /\ pc' = pc
               /\ call' = [call EXCEPT ![p] = [c EXCEPT !.result = TooManyRequests]]
        ELSE /\ pc' = [pc EXCEPT ![p] = "rate_set"]
             /\ call' = [call EXCEPT ![p] = c]
  /\ UNCHANGED <<users, nextId, now, cache, admitted, dbConnection, pool, pools>>

\* canActivate from the await of cacheManager.set: current + 1 is stored with a
\* fresh ttl and the request is admitted.
CanActivateSet(p, rateLimitOptions) ==
  /\ pc[p] = "rate_set"
  /\ cache' = cacheSet(call[p].key, call[p].current + 1, rateLimitOptions.ttl * 1000)
  /\ admitted' = [admitted EXCEPT ![<<call[p].key, now>>] = @ + 1]
  /\ pc' = [pc EXCEPT ![p] = "idle"]
  /\ call' = [call EXCEPT ![p] = [call[p] EXCEPT !.result = Ok("")]]
  /\ UNCHANGED <<users, nextId, now, dbConnection, pool, pools>>

\* ------------------------------------------------- database connection
\* `if (dbConnection)` / `if (!dbConnection)` / `if (pool)`.
neverInitialized(x) == FALSE
initialized(x) == x # Null
ErrNotInitialized ==
  [status |-> "Error", message |-> "Database connection not initialized"]

\* The DatabaseConfig objects a caller passes, told apart by `database`.
DatabaseConfigs == { [database |-> "app"], [database |-> "app_test"] }
\* new Pool({ ..., database: config.database, ... }), not yet ended.
NewPool(config) == [state |-> "open", database |-> config.database]

\* A call of a connection.ts function returns (or throws) and leaves p idle.
DbReturn(p, op, body, result, db) ==
  /\ pc' = [pc EXCEPT ![p] = "idle"]
  /\ call' = [call EXCEPT ![p] =
               [Idle EXCEPT !.op = op, !.body = body, !.result = result, !.db = db]]
  /\ UNCHANGED <<users, nextId, now, cache, admitted>>

\* createDatabaseConnection(config): the existing connection, or a new Pool
\* and drizzle(pool).
createDatabaseConnection(p, config) ==
  /\ pc[p] = "idle"
  /\ IF initialized(dbConnection)
       THEN /\ UNCHANGED <<dbConnection, pool, pools>>
            /\ DbReturn(p, "createDatabaseConnection", config, Ok(""), dbConnection)
     ELSE /\ Len(pools) < MaxPools
          /\ pools' = Append(pools, NewPool(config))
          /\ pool' = Some(Len(pools) + 1)
          /\ dbConnection' = Some([pool |-> Len(pools) + 1])
          /\ DbReturn(p, "createDatabaseConnection", config, Ok(""), dbConnection')

\* getDatabaseConnection(): the connection, or the error.
getDatabaseConnection(p) ==
  /\ pc[p] = "idle"
  /\ UNCHANGED <<dbConnection, pool, pools>>
  /\ IF ~initialized(dbConnection)
       THEN DbReturn(p, "getDatabaseConnection", <<>>, ErrNotInitialized, Null)
     ELSE DbReturn(p, "getDatabaseConnection", <<>>, Ok(""), dbConnection)

\* closeDatabaseConnection() up to `await pool.end()`; nothing to do without
\* a pool.
CloseBegin(p) ==
  /\ pc[p] = "idle"
  /\ IF initialized(pool)
       THEN /\ pools' = [pools EXCEPT ![Val(pool)].state = "ended"]
            /\ pc' = [pc EXCEPT ![p] = "close_end"]
            /\ call' = [call EXCEPT ![p] = [Idle EXCEPT !.op = "closeDatabaseConnection"]]
            /\ UNCHANGED <<users, nextId, now, cache, admitted, dbConnection, pool>>
     ELSE /\ UNCHANGED <<dbConnection, pool, pools>>
          /\ DbReturn(p, "closeDatabaseConnection", <<>>, Ok(""), Null)

\* closeDatabaseConnection() after the await: both variables are cleared.
CloseEnd(p) ==
  /\ pc[p] = "close_end"
  /\ pool' = Null
  /\ dbConnection' = Null
  /\ UNCHANGED pools
  /\ DbReturn(p, "closeDatabaseConnection", <<>>, Ok(""), Null)

\* The clock moves on by d, within the horizon.
Tick(d, horizon) ==
  /\ now + d <= horizon
  /\ now' = now + d
  /\ UNCHANGED <<users, nextId, pc, call>>
  /\ UNCHANGED infra

Horizon == MaxHours * HourMs

\* ------------------------------------------------------------ scheduling
ResetTokenInputs == ResetTokens \cup { "bogus" }
ActiveDtos == { [isActive |-> FALSE], [isActive |-> TRUE] }
PasswordDtos == { [password |-> Raw(pw)] : pw \in NewPasswords }
\* Tokens a client may present: signed with either secret or with neither, for
\* any id, expired before the start, expiring within the horizon, or long-lived.
JwtInputs ==
  { [secret |-> s, sub |-> i, claims |-> [tokenVersion |-> 1], iat |-> 0, exp |-> e] :
      s \in { jwtSecret, jwtRefreshSecret, "forged", "malformed" }, i \in Ids,
      e \in { 0, HourMs, jwtRefreshExpiresIn } }

Register(p, signups) ==
  \E su \in signups, pw \in CreatePasswords, s \in Salts :
    Create(p, su[1], su[2], pw, "user", s)

Login(p, emails, passwords) ==
  \/ \E e \in emails, pw \in passwords : LoginStart(p, e, pw)
  \/ LoginUnlock(p)
  \/ LoginFind(p)
  \/ LoginFailRead(p)
  \/ LoginFailWrite(p)
  \/ LoginReset(p)
  \/ LoginFindOne(p)

Reset(p, emails) ==
  \/ \E e \in emails, t \in ResetTokens : ForgotPassword(p, e, t)
  \/ \E t \in ResetTokenInputs, pw \in NewPasswords : ResetStart(p, t, pw)
  \/ \E s \in Salts : ResetFinish(p, s)

\* The client presents a token out of the pair it holds.
TokenKinds == { "accessToken", "refreshToken" }
RefreshHeld(p, kind) == Hold(p) # Null /\ RefreshStart(p, Val(Hold(p))[kind])
AuthenticateHeld(p, kind) == Hold(p) # Null /\ Authenticate(p, Val(Hold(p))[kind])
LogoutHeld(p, kind) == Hold(p) # Null /\ Logout(p, Val(Hold(p))[kind])

Refresh(p) ==
  \/ \E t \in JwtInputs : RefreshStart(p, t)
  \/ \E k \in TokenKinds : RefreshHeld(p, k)
  \/ RefreshTokens(p)

Session(p) ==
  \/ \E t \in JwtInputs : Authenticate(p, t)
  \/ \E k \in TokenKinds : AuthenticateHeld(p, k)
  \/ \E t \in JwtInputs : Logout(p, t)
  \/ \E k \in TokenKinds : LogoutHeld(p, k)

SetActive(p) == \E id \in Ids, dto \in ActiveDtos : AdminUpdate(p, id, dto)

SetPassword(p) ==
  \/ \E id \in Ids, dto \in PasswordDtos : AdminUpdate(p, id, dto)
  \/ \E id \in Ids, cur \in CreatePasswords, new \in NewPasswords,
        conf \in NewPasswords \cup { "Mismatch1!" }, s \in Salts :
        ChangePassword(p, id, cur, new, conf, s)

Delete(p) == \E id \in Ids : Remove(p, id)

\* Login and lockout, one request at a time (only process 1 serves).
Next ==
  \/ \E p \in SeqProcs :
       Register(p, Signups) \/ Login(p, EmailInputs, LoginPasswords) \/ SetActive(p)
  \/ Tick(HourMs, Horizon)

\* Password reset, one request at a time.
NextReset ==
  \/ \E p \in SeqProcs : Register(p, Signups) \/ Reset(p, EmailInputs)
  \/ Tick(HourMs, Horizon)

\* Every writer of the password column, one request at a time.
NextPassword ==
  \/ \E p \in SeqProcs :
       Register(p, Signups) \/ SetPassword(p) \/ Reset(p, EmailInputs)
  \/ Tick(HourMs, Horizon)

\* Token refresh against accounts that come, go and are switched off.
NextToken ==
  \/ \E p \in SeqProcs :
       Register(p, Signups) \/ Refresh(p) \/ Session(p) \/ SetActive(p) \/ Delete(p)
  \/ Tick(HourMs, Horizon)

\* Two login requests for one account interleave at every await.
ConcEmails == { <<"a", "@", "x">>, <<"b", "@", "x">> }
NextConc ==
  \/ \E p \in Procs : Register(p, ConcSignups) \/ Login(p, ConcEmails, LoginPasswords)
  \/ Tick(lockTime, lockTime)

\* Two requests that write emails and usernames interleave at every await.
IdentityInputs == { <<>>, <<"a", "@", "x">>, <<"B", "@", "x">> }
UsernameInputs == { <<>>, <<"u", "1">>, <<"U", "2">> }
IdentityDtos == (IdentityInputs \X UsernameInputs) \ { << <<>>, <<>> >> }
Identity(p) ==
  \/ \E su \in Signups, pw \in CreatePasswords : CreateCheck(p, su[1], su[2], pw)
  \/ \E s \in Salts : CreateInsert(p, s)
  \/ \E id \in Ids, dto \in IdentityDtos : UpdateCheck(p, id, dto[1], dto[2])
  \/ UpdateWrite(p)
NextIdentityConc == \E p \in Procs : Identity(p)

\* Login, refresh and guarded requests against a database that may fail at
\* any query, one request at a time.
StoreFails(p) ==
  \/ \E e \in ConcEmails, pw \in LoginPasswords : LoginStartStoreFails(p, e, pw)
  \/ LoginStoreFails(p)
  \/ RefreshStoreFails(p)
  \/ \E t \in JwtInputs : AuthenticateStoreFails(p, t)
NextStore ==
  \/ \E p \in SeqProcs :
       \/ Register(p, ConcSignups) \/ Login(p, ConcEmails, LoginPasswords)
       \/ Refresh(p) \/ Session(p) \/ StoreFails(p)
  \/ Tick(lockTime, lockTime)

\* The reset fields an admin's PATCH /users/:id can carry: UpdateUserDto takes
\* any string or null as passwordResetToken, and of passwordResetExpires
\* (@IsDate, no @Type) only null survives validation of a JSON body.
ResetFieldDtos ==
  { [passwordResetToken |-> Some(t)] : t \in ResetTokens }
    \cup { [passwordResetToken |-> Null], [passwordResetExpires |-> Null] }
SetResetFields(p) == \E id \in Ids, dto \in ResetFieldDtos : AdminUpdate(p, id, dto)

\* Password reset next to an admin who edits accounts, one request at a time.
NextResetAdmin ==
  \/ \E p \in SeqProcs :
       Register(p, Signups) \/ Reset(p, EmailInputs) \/ SetResetFields(p)
  \/ Tick(HourMs, Horizon)

\* A client (process 1) that refreshes and presents its tokens while an
\* admin (process 2) creates, switches off and on, and removes accounts.
\* The client starts from a long-lived refresh token and goes on with the
\* tokens it is issued.
AdminProcs == Procs \ SeqProcs
RefreshInputs ==
  { t \in JwtInputs : t.secret = jwtRefreshSecret /\ t.exp = jwtRefreshExpiresIn }
ClientSession(p) ==
  \/ \E t \in RefreshInputs : RefreshStart(p, t)
  \/ RefreshTokens(p)
  \/ \E k \in TokenKinds : RefreshHeld(p, k)
  \/ \E k \in TokenKinds : AuthenticateHeld(p, k)
  \/ \E k \in TokenKinds : LogoutHeld(p, k)
NextSession ==
  \/ \E p \in SeqProcs : ClientSession(p)
  \/ \E q \in AdminProcs : Register(q, ConcSignups) \/ SetActive(q) \/ Delete(q)
  \/ Tick(HourMs, Horizon)

\* The role a registration body may carry (@IsOptional, @IsEnum(UserRole));
\* without one the column's default 'user' applies.
UserRole == { "user", "admin", "moderator" }
RegisterWithRole(p) ==
  \E su \in Signups, pw \in CreatePasswords, role \in UserRole, s \in Salts :
    Create(p, su[1], su[2], pw, role, s)
RoleDtos == { [role |-> r] : r \in UserRole }
SetRole(p) == \E id \in Ids, dto \in RoleDtos : AdminUpdate(p, id, dto)

\* Public registration next to an admin who assigns roles and removes accounts.
NextRoles ==
  \E p \in SeqProcs : RegisterWithRole(p) \/ SetRole(p) \/ SetActive(p) \/ Delete(p)

\* Bodies of PATCH /users/profile that pass UpdateUserDto's validation.
ProfileBodies ==
  { [firstName |-> "New"],
    [lastName |-> "Name", profilePicture |-> Some("pic")],
    [firstName |-> "New", role |-> "admin", isActive |-> FALSE, isEmailVerified |-> TRUE],
    [firstName |-> "New", email |-> <<"b", "@", "x">>, username |-> <<"u", "9">>],
    [password |-> Raw("NewPass1!"), passwordResetToken |-> Some("tok1")],
    [role |-> "admin"] }
UpdateProfileHeld(p, kind, updateUserDto) ==
  Hold(p) # Null /\ UpdateProfile(p, Val(Hold(p))[kind], updateUserDto)

\* A client that edits its profile with the tokens it was issued, next to an
\* admin who registers and removes accounts.
ProfileSession(p) ==
  \/ \E t \in RefreshInputs : RefreshStart(p, t)
  \/ RefreshTokens(p)
  \/ \E k \in TokenKinds, b \in ProfileBodies : UpdateProfileHeld(p, k, b)
NextProfile ==
  \/ \E p \in SeqProcs : ProfileSession(p)
  \/ \E q \in AdminProcs : Register(q, Signups) \/ Delete(q)

\* Two requests to a rate-limited handler interleave at every await.
RateLimited(p) ==
  \/ \E key \in RateKeys : CanActivateGet(p, key, AuthRateLimit)
  \/ CanActivateSet(p, AuthRateLimit)
NextRateConc ==
  \/ \E p \in Procs : RateLimited(p)
  \/ Tick(HalfWindow, RateHorizon)

\* One caller of database/connection.ts, each call awaited before the next.
Connection(p) ==
  \/ \E config \in DatabaseConfigs : createDatabaseConnection(p, config)
  \/ getDatabaseConnection(p)
  \/ CloseBegin(p)
  \/ CloseEnd(p)
NextDb == \E p \in SeqProcs : Connection(p)

\* Two reset requests interleave at every await.
NextResetConc ==
  \/ \E p \in Procs : Register(p, ConcSignups) \/ Reset(p, ConcEmails)
  \/ Tick(HourMs, Horizon)

\* ------------------------------------------------------------------ claims
\* The account an email denotes (emails are case-insensitive keys), in a table.
AccountOf(table, email) ==
  { id \in DOMAIN table : table[id].email = toLowerCase(email) }
Returned(p, op) == call[p].op = op /\ pc[p] = "idle"
LoginReturns(p) == call[p].op = "login" /\ pc[p] # "idle" /\ pc'[p] = "idle"

\* C1: once an account is locked after 5 consecutive wrong passwords, every login
\* attempt made for it while its lockUntil is in the future is refused with the
\* account-locked error, whatever the password.
C1_LockedLoginRefused ==
  \A p \in Procs : Returned(p, "login") /\ call[p].wasLocked => call[p].result = ErrLocked

\* C5: when login succeeds for an account, that account's loginAttempts is 0 and
\* its lockUntil is null as the call returns.
C5_SuccessClearsAttempts ==
  [][\A p \in Procs :
       LoginReturns(p) /\ call'[p].result = Ok("")
       => \A id \in AccountOf(users', call[p].email) :
            users'[id].loginAttempts = 0 /\ users'[id].lockUntil = Null]_vars

\* The login now returning was made with the right password for an account
\* that was inactive when the call began.
InactiveWithPassword(p, id) ==
  /\ id \in AccountOf(call[p].pre, call[p].email)
  /\ ~call[p].pre[id].isActive
  /\ bcryptCompare(call[p].password, call[p].pre[id].password)
DeactivatedOutcome(p, id) ==
  /\ call'[p].result = ErrDeactivated
  /\ call'[p].tokens = Null
  /\ id \in DOMAIN users'
  /\ users'[id].loginAttempts = call[p].pre[id].loginAttempts
  /\ users'[id].lockUntil = call[p].pre[id].lockUntil
  /\ users'[id].lastLoginAt = call[p].pre[id].lastLoginAt

\* C8 (as stated): login with the correct password for an account whose isActive
\* is false fails with the deactivated error, issues no tokens, and leaves
\* loginAttempts, lockUntil and lastLoginAt as they were.
C8_InactiveLoginAsStated ==
  [][\A p \in Procs : \A id \in Ids :
       LoginReturns(p) /\ InactiveWithPassword(p, id) => DeactivatedOutcome(p, id)]_vars

\* C8 (amended): login with the correct password for an account whose isActive
\* is false and whose lockUntil is null fails with the deactivated error, issues
\* no tokens, and leaves loginAttempts, lockUntil and lastLoginAt as they were.
C8_InactiveLoginUnlocked ==
  [][\A p \in Procs : \A id \in Ids :
       /\ LoginReturns(p)
       /\ InactiveWithPassword(p, id)
       /\ IsNull(call[p].pre[id].lockUntil)
       => DeactivatedOutcome(p, id)]_vars

\* A login was refused as deactivated for an inactive, never-locked account that
\* carries failed attempts, which the refusal left in place.
C8_Witness ==
  \E p \in Procs : \E id \in DOMAIN users :
    /\ Returned(p, "login")
    /\ call[p].result = ErrDeactivated
    /\ id \in AccountOf(users, call[p].email)
    /\ ~users[id].isActive
    /\ IsNull(users[id].lockUntil)
    /\ users[id].loginAttempts > 0

\* C9 (mutual): a login for an email with no account and a login with a wrong
\* password for an existing, unlocked account fail with the same error kind and
\* the same message.
UnknownEmailLogin(p) ==
  Returned(p, "login") /\ ~call[p].found /\ AccountOf(users, call[p].email) = {}
WrongPasswordLogin(q) ==
  /\ Returned(q, "login")
  /\ call[q].found /\ ~call[q].wasLocked
  /\ \E id \in AccountOf(users, call[q].email) :
       ~bcryptCompare(call[q].password, users[id].password)
C9_SameLoginFailure ==
  \A p \in Procs : \A q \in Procs :
    UnknownEmailLogin(p) /\ WrongPasswordLogin(q)
    => /\ call[p].result.status = "Unauthorized"
       /\ call[p].result = call[q].result
       /\ call[p].tokens = Null /\ call[q].tokens = Null

\* Both kinds of failed login have returned, side by side.
C9_Witness ==
  \E p \in Procs : \E q \in Procs : UnknownEmailLogin(p) /\ WrongPasswordLogin(q)

\* C4: concurrent failed logins for one account lose no increment: recording a
\* failed attempt leaves loginAttempts one above the value stored just before.
C4_NoLostIncrement ==
  [][\A p \in Procs :
       pc[p] = "login_fail_write" /\ pc'[p] = "idle"
       => \A id \in AccountOf(users, call[p].email) :
            users'[id].loginAttempts = users[id].loginAttempts + 1]_vars

\* C3: in every reachable state the stored password of every account is an
\* output of the password hasher.
C3_StoredPasswordHashed ==
  \A id \in DOMAIN users : users[id].password.digest

\* Some account stores the token with an expiry strictly in the future.
TokenStored(table, token) ==
  \E id \in DOMAIN table : table[id].passwordResetToken = Some(token)
TokenLive(table, token) ==
  \E id \in DOMAIN table :
    /\ table[id].passwordResetToken = Some(token)
    /\ ~IsNull(table[id].passwordResetExpires)
    /\ Val(table[id].passwordResetExpires) > now
ResetReturns(p) == pc[p] = "reset_find" /\ pc'[p] = "idle"

\* C2: resetPassword called with the token forgotPassword stored for a
\* registered account, before passwordResetExpires, succeeds.
C2_StoredTokenResets ==
  [][\A p \in Procs :
       ResetReturns(p) /\ TokenLive(users, call[p].token)
       => call'[p].result = Ok("Password reset successfully")]_vars

RefreshAcceptable(token) ==
  /\ token.secret = jwtRefreshSecret
  /\ now < token.exp
  /\ token.sub \in DOMAIN users
  /\ users[token.sub].isActive
C7_RefreshIffValid ==
  [][\A p \in Procs :
       pc[p] = "refresh_verify" /\ pc'[p] = "idle"
       => IF RefreshAcceptable(call[p].jwt)
            THEN /\ call'[p].result = Ok("")
                 /\ call'[p].tokens # Null
                 /\ Val(call'[p].tokens).refreshToken.sub = call[p].jwt.sub
                 /\ Val(call'[p].tokens).refreshToken.secret = jwtRefreshSecret
                 /\ Val(call'[p].tokens).accessToken.secret = jwtSecret
          ELSE /\ call'[p].result = ErrInvalidRefreshToken
               /\ call'[p].tokens = Null]_vars

\* refreshTokens has returned a new pair for an existing, active account.
C7_Witness ==
  \E p \in Procs :
    /\ Returned(p, "refreshTokens")
    /\ call[p].result = Ok("")
    /\ call[p].tokens # Null
    /\ Val(call[p].tokens).refreshToken.sub \in DOMAIN users

SameIdentity(r1, r2) ==
  \/ toLowerCase(r1.email) = toLowerCase(r2.email)
  \/ toLowerCase(r1.username) = toLowerCase(r2.username)
UniqueIdentities ==
  \A i \in DOMAIN users : \A j \in DOMAIN users : i # j => ~SameIdentity(users[i], users[j])
IdentityWriteReturns(p) ==
  pc[p] \in { "create_insert", "update_write" } /\ pc'[p] = "idle"
IdentityTaken(p) ==
  \E id \in DOMAIN users :
    /\ id # call[p].id
    /\ \/ call[p].email # <<>> /\ toLowerCase(users[id].email) = call[p].email
       \/ call[p].username # <<>> /\ toLowerCase(users[id].username) = call[p].username
C11_UniqueIdentities ==
  /\ []UniqueIdentities
  /\ [][\A p \in Procs :
          IdentityWriteReturns(p) /\ IdentityTaken(p)
          => call'[p].result.status = "Conflict" /\ users' = users]_vars

\* A create or update lost the race: its pre-check had passed, and the unique
\* index refused its write.
C11_Witness ==
  \E p \in Procs :
    /\ pc[p] = "idle" /\ call[p].op \in { "create", "update" }
    /\ call[p].result = Conflict("User with this email or username already exists")
    /\ Cardinality(DOMAIN users) = MaxUsers

\* C12: every failure of refreshTokens caused by the token or the account
\* (malformed, expired, wrong signature, missing account, inactive account) is
\* reported as the same Unauthorized error with the same message.
RefreshFailureCauses ==
  { JsonWebTokenError("jwt malformed"), JsonWebTokenError("invalid signature"),
    TokenExpiredError, ErrUserNotFound, ErrInvalidRefreshToken }
C12_OneRefreshFailure ==
  [][\A p \in Procs :
       /\ pc[p] = "refresh_verify" /\ pc'[p] = "idle"
       /\ call'[p].thrown \in RefreshFailureCauses
       => /\ call'[p].result.status = "Unauthorized"
          /\ call'[p].result.message = "Invalid refresh token"
          /\ call'[p].tokens = Null]_vars

\* refreshTokens failed on a missing account: findOne threw NotFound and
\* the caller was told Unauthorized.
C12_Witness ==
  \E p \in Procs :
    /\ Returned(p, "refreshTokens")
    /\ call[p].thrown = ErrUserNotFound
    /\ call[p].result = ErrInvalidRefreshToken

RefreshReturns(p) == pc[p] = "refresh_verify" /\ pc'[p] = "idle"

\* C14: a refresh token is not revoked by being used: a refreshTokens call with
\* the token of a refresh that just succeeded also succeeds, while the token is
\* unexpired and the account exists and is active.
C14_RefreshTokenReusable ==
  [][\A p \in Procs :
       RefreshReturns(p) /\ call[p].reused /\ RefreshAcceptable(call[p].jwt)
       => call'[p].result = Ok("") /\ call'[p].tokens # Null]_vars

\* The same refresh token was accepted a second time.
C14_Witness ==
  \E p \in Procs :
    Returned(p, "refreshTokens") /\ call[p].reused /\ call[p].result = Ok("")

\* The tokens clients hold or may present.
KnownTokens == JwtInputs \cup UNION { HeldTokens(q) : q \in Procs }
LogoutStep(p) == pc[p] = "idle" /\ call'[p].op = "logout" /\ call'[p] # call[p]

C16_LogoutInvalidatesRefreshToken ==
  [][\A p \in Procs :
       /\ RefreshReturns(p)
       /\ call[p].afterLogout
       /\ call[p].held # Null /\ call[p].jwt = Val(call[p].held).refreshToken
       => call'[p].result.status # "ok" /\ call'[p].tokens = Null]_vars

\* C17: refreshTokens rejects every token signed as an access token, and
\* access-token authentication rejects every token signed as a refresh token.
C17_TokensNotInterchangeable ==
  \A p \in Procs :
    /\ Returned(p, "refreshTokens") /\ call[p].jwt.secret = jwtSecret
       => call[p].result = ErrInvalidRefreshToken /\ call[p].tokens = Null
    /\ call[p].op \in { "authenticate", "logout" } /\ call[p].jwt.secret = jwtRefreshSecret
       => call[p].result = ErrUnauthorized

\* A refresh token that refreshTokens would accept was presented as bearer
\* token and refused.
C17_Witness ==
  \E p \in Procs :
    /\ Returned(p, "authenticate")
    /\ call[p].held # Null /\ call[p].jwt = Val(call[p].held).refreshToken
    /\ refreshThrown(call[p].jwt) = Pending
    /\ call[p].result = ErrUnauthorized

\* C18: the access token generateTokens produces for an account verifies,
\* while unexpired, to a payload with the account's id as sub and its email,
\* username and role at issue time; once its expiry has passed it fails
\* verification.
AccessPayload(id, row) ==
  [sub |-> id, email |-> row.email, username |-> row.username, role |-> row.role]
C18_AccessTokenRoundTrip ==
  /\ [](\A p \in Procs :
          Hold(p) # Null
          => LET t == Val(Hold(p)).accessToken
             IN IF now < t.exp
                  THEN verifyAccess(t) # Null /\ Val(verifyAccess(t)).sub = t.sub
                ELSE verifyAccess(t) = Null)
  /\ [][\A p \in Procs :
          RefreshReturns(p) /\ call'[p].tokens # Null
          => verifyAccess(Val(call'[p].tokens).accessToken)
               = Some(AccessPayload(call[p].jwt.sub, users[call[p].jwt.sub]))]_vars

\* An issued access token was presented after its expiry and refused.
C18_Witness ==
  \E p \in Procs :
    /\ Returned(p, "authenticate")
    /\ call[p].held # Null /\ call[p].jwt = Val(call[p].held).accessToken
    /\ now >= call[p].jwt.exp
    /\ call[p].result = ErrUnauthorized

\* ------------------------------------------------- one account per login
\* The login now returning rejected a wrong password for the account that
\* findUserForAuthentication fetched.
WrongPasswordRejected(p) ==
  /\ LoginReturns(p)
  /\ call[p].found /\ call'[p].result = ErrInvalidCredentials

\* C19: for every casing of the supplied email, a login made while the account
\* the email denotes is locked is refused, and a login that rejects a wrong
\* password for an account leaves that account's loginAttempts one higher than
\* the credential fetch saw it.
C19_LoginResolvesOneAccount ==
  /\ [](\A p \in Procs :
          Returned(p, "login") /\ call[p].wasLocked
          => call[p].result.status = "Unauthorized" /\ call[p].tokens = Null)
  /\ [][\A p \in Procs :
          WrongPasswordRejected(p)
          => LET A == call[p].user[1]
             IN /\ A.id \in DOMAIN users'
                /\ users'[A.id].loginAttempts = A.loginAttempts + 1]_vars

\* --------------------------------------------- attempts and lock together
\* An account carries a lock exactly when its counter is at the threshold.
LockCorrelated ==
  \A id \in DOMAIN users :
    users[id].lockUntil # Null <=> users[id].loginAttempts >= maxLoginAttempts

\* A step that lowers an account's counter or takes its lock away leaves the
\* counter at 0 and no lock.
ResetClearsBoth ==
  \A id \in DOMAIN users \cap DOMAIN users' :
    \/ users'[id].loginAttempts < users[id].loginAttempts
    \/ users[id].lockUntil # Null /\ users'[id].lockUntil = Null
    => users'[id].loginAttempts = 0 /\ users'[id].lockUntil = Null

\* The failed attempt now returning left the account it was made for with a
\* counter one higher, and with a lock of lockTime from now exactly when the
\* new counter is at the threshold.
FailedAttemptCounted(p) ==
  LET A == call[p].user[1]
  IN /\ A.id \in DOMAIN users'
     /\ users'[A.id].loginAttempts = A.loginAttempts + 1
     /\ users'[A.id].lockUntil =
          IF A.loginAttempts + 1 >= maxLoginAttempts THEN Some(now + lockTime) ELSE Null

\* C20: in every reachable state an account's lockUntil is non-null if and
\* only if its loginAttempts is at least 5; a failed attempt raises the
\* account's loginAttempts by exactly 1 and sets lockUntil to now + 2 hours
\* exactly when the new value reaches 5; every reset sets loginAttempts to 0
\* and lockUntil to null together.
C20_AttemptsAndLockCorrelated ==
  /\ []LockCorrelated
  /\ [][ResetClearsBoth]_vars
  /\ [][\A p \in Procs : WrongPasswordRejected(p) => FailedAttemptCounted(p)]_vars

\* ------------------------------------------------------- expired locks
\* C21: a login made for an account whose lock has run out is not refused as
\* locked; with the right password (and the account active) it succeeds and
\* leaves loginAttempts 0 and lockUntil null, with a wrong password it fails on
\* the credentials and leaves loginAttempts 1 and lockUntil null.
C21_ExpiredLockStartsAfresh ==
  /\ [](\A p \in Procs :
          Returned(p, "login") /\ call[p].wasExpired => call[p].result # ErrLocked)
  /\ [][\A p \in Procs :
          LoginReturns(p) /\ call[p].wasExpired
          => \A id \in AccountOf(call[p].pre, call[p].email) :
               IF bcryptCompare(call[p].password, call[p].pre[id].password)
                 THEN call[p].pre[id].isActive
                      => /\ call'[p].result = Ok("") /\ call'[p].tokens # Null
                         /\ users'[id].loginAttempts = 0
                         /\ users'[id].lockUntil = Null
               ELSE /\ call'[p].result = ErrInvalidCredentials
                    /\ users'[id].loginAttempts = 1
                    /\ users'[id].lockUntil = Null]_vars

\* -------------------------------------------- logins that write nothing
\* Process p's login ends with this step; the table when that login began.
LoginEnds(p) ==
  /\ call'[p].op = "login" /\ pc'[p] = "idle"
  /\ pc[p] # "idle" \/ call'[p] # call[p]
LoginTableBefore(p) == IF pc[p] = "idle" THEN users ELSE call[p].pre

\* C22: a login refused because the account is locked, and a login for an
\* email that no account has (which fails), leave every account record as it
\* was when the login began.
C22_RefusedLoginWritesNothing ==
  [][\A p \in Procs :
       LoginEnds(p)
       => /\ call'[p].result = ErrLocked => users' = LoginTableBefore(p)
          /\ AccountOf(LoginTableBefore(p), call'[p].email) = {}
             => /\ call'[p].result = ErrInvalidCredentials
                /\ users' = LoginTableBefore(p)]_vars

\* A login was refused as locked while another account exists besides the
\* locked one.
C22_Witness ==
  \E p \in Procs :
    /\ Returned(p, "login") /\ call[p].result = ErrLocked
    /\ \E id \in DOMAIN users : users[id].email # toLowerCase(call[p].email)

\* ----------------------------------------------------------- lastLoginAt
\* The accounts whose lastLoginAt differs between two tables.
LastLoginChanged(before, after) ==
  { id \in DOMAIN before \cap DOMAIN after :
      after[id].lastLoginAt # before[id].lastLoginAt }

\* C23: an account's lastLoginAt changes only in a login call that succeeds
\* for that account: a login that ends otherwise (failed, refused as locked,
\* with or without the reset of an expired lock) leaves every lastLoginAt as
\* it was, a login that succeeds changes no other account's, and no step
\* outside a login call changes any.
C23_LastLoginOnlyOnSuccess ==
  /\ [][\A p \in Procs :
          LoginEnds(p)
          => IF call'[p].result = Ok("")
               THEN LastLoginChanged(LoginTableBefore(p), users')
                      \subseteq AccountOf(LoginTableBefore(p), call'[p].email)
             ELSE LastLoginChanged(LoginTableBefore(p), users') = {}]_vars
  /\ [][LastLoginChanged(users, users') # {}
          => \E p \in Procs : call[p].op = "login" /\ pc[p] # "idle"]_vars

\* ---------------------------------------------------- reset fields
\* C24: in every reachable state every account's passwordResetToken is null
\* exactly when its passwordResetExpires is null.
C24_ResetFieldsTogether ==
  \A id \in DOMAIN users :
    users[id].passwordResetToken = Null <=> users[id].passwordResetExpires = Null

\* Process p serves a forgotPassword request in this step.
ForgotPasswordStep(p) ==
  /\ pc[p] = "idle" /\ pc'[p] = "idle"
  /\ call'[p].op = "forgotPassword" /\ now' = now

\* C25: forgotPassword for an email no account has changes no account; for a
\* registered email it gives that account a reset token and the expiry
\* now + 1 hour, in place of what it held, and changes nothing else of it and
\* nothing of any other account.
C25_ForgotPasswordFrame ==
  [][\A p \in Procs :
       ForgotPasswordStep(p)
       => /\ DOMAIN users' = DOMAIN users
          /\ \A id \in DOMAIN users :
               IF id \in AccountOf(users, call'[p].email)
                 THEN /\ users'[id].passwordResetToken \in { Some(t) : t \in ResetTokens }
                      /\ users'[id] =
                           [users[id] EXCEPT
                              !.passwordResetToken = users'[id].passwordResetToken,
                              !.passwordResetExpires = Some(now + resetTokenTtl)]
               ELSE users'[id] = users[id]]_vars

\* A forgotPassword for a registered email has just set that account's token
\* and expiry, some time after the start, while another account in the table
\* holds a different token of its own.
C25_Witness ==
  \E p \in Procs : \E id \in AccountOf(users, call[p].email), other \in DOMAIN users :
    /\ Returned(p, "forgotPassword") /\ call[p].found
    /\ users[id].passwordResetExpires = Some(now + resetTokenTtl) /\ now > 0
    /\ other # id /\ users[other].passwordResetToken # Null
    /\ users[other].passwordResetToken # users[id].passwordResetToken

\* ------------------------------------------------- who is authenticated
\* Process p answers a guarded request in this step (no other process moves,
\* the table and the clock stay).
GuardedStep(p) ==
  /\ pc[p] = "idle" /\ pc'[p] = "idle"
  /\ call'[p].op \in { "authenticate", "logout" } /\ call'[p] # call[p]
  /\ users' = users /\ now' = now

\* C26: a request whose access token is correctly signed and unexpired is
\* authenticated exactly when the token's subject account exists and is active
\* at the time of the request, and is refused as unauthorized otherwise; the
\* principal is the account's record as stored at that time.
C26_AuthenticatedIffActiveNow ==
  [][\A p \in Procs :
       GuardedStep(p) /\ verifyAccess(call'[p].jwt) # Null
       => LET sub == call'[p].jwt.sub
          IN IF sub \in DOMAIN users /\ users[sub].isActive
               THEN /\ call'[p].result.status = "ok"
                    /\ call'[p].principal =
                         <<transformToResponseDto([id |-> sub] @@ users[sub])>>
             ELSE /\ call'[p].result = ErrInvalidAccessToken
                  /\ call'[p].principal = NoRow]_vars

\* The access token a client was issued is refused, before its expiry, after
\* the account was deactivated or removed.
C26_Witness ==
  \E p \in Procs :
    /\ Returned(p, "authenticate")
    /\ call[p].held # Null /\ call[p].jwt = Val(call[p].held).accessToken
    /\ now < call[p].jwt.exp
    /\ call[p].result = ErrInvalidAccessToken

\* ------------------------------------------------------------------ roles
\* C27: every stored role is one of user, admin, moderator; an account created
\* through public registration starts with role user; an account's role
\* changes only in an admin's update.
C27_RegistrationGivesUserRole ==
  /\ [](\A id \in DOMAIN users : users[id].role \in UserRole)
  /\ [][\A id \in DOMAIN users' \ DOMAIN users : users'[id].role = "user"]_vars
  /\ [][\A id \in DOMAIN users \cap DOMAIN users' :
          users'[id].role # users[id].role
          => \E p \in Procs : pc[p] = "idle" /\ call'[p].op = "update"]_vars

\* --------------------------------------------------- profile update
\* Process p answers a profile update in this step.
ProfileStep(p) ==
  /\ pc[p] = "idle" /\ pc'[p] = "idle"
  /\ call'[p].op = "updateProfile" /\ call'[p] # call[p]

\* C28: whatever its body, a profile update changes at most firstName,
\* lastName and profilePicture of the caller's own account (the subject of the
\* access token), and nothing of any other account.
C28_ProfileUpdateFrame ==
  [][\A p \in Procs :
       ProfileStep(p)
       => /\ DOMAIN users' = DOMAIN users
          /\ \A id \in DOMAIN users :
               IF id = call'[p].id /\ id = call'[p].jwt.sub
                 THEN /\ DOMAIN users'[id] = DOMAIN users[id]
                      /\ \A f \in DOMAIN users[id] \ AllowedFields :
                           users'[id][f] = users[id][f]
               ELSE users'[id] = users[id]]_vars

\* A profile update whose body named a role the caller does not have went
\* through and changed the caller's first name, with another account in the
\* table.
C28_Witness ==
  \E p \in Procs :
    /\ Returned(p, "updateProfile") /\ call[p].result = Ok("")
    /\ call[p].id \in DOMAIN users /\ Cardinality(DOMAIN users) > 1
    /\ DOMAIN call[p].body = { "firstName", "role", "isActive", "isEmailVerified" }
    /\ users[call[p].id].firstName = call[p].body.firstName
    /\ users[call[p].id].role # call[p].body.role

\* --------------------------------------------------------- rate limiting
\* The requests with that key admitted in the window of ttl seconds from t.
WindowAdmitted(key, t) ==
  admitted[<<key, t>>]
    + (IF t + HalfWindow \in RateTimes THEN admitted[<<key, t + HalfWindow>>] ELSE 0)

\* Process p's request reaches the guard in this step.
GuardReached(p) ==
  /\ pc[p] = "idle" /\ call'[p].op = "canActivate" /\ call'[p] # call[p]

\* C29: for every key, at most limit requests are admitted within any window
\* of ttl seconds, also when requests with the same key are served side by
\* side; a request that finds the count at the limit is rejected with 429 and
\* leaves the counter as it is.
C29_AtMostLimitPerWindow ==
  /\ [](\A key \in RateKeys, t \in RateTimes :
          WindowAdmitted(key, t) <= AuthRateLimit.limit)
  /\ [][\A p \in Procs :
          GuardReached(p) /\ cacheGet(call'[p].key) >= AuthRateLimit.limit
          => /\ pc'[p] = "idle" /\ call'[p].result = TooManyRequests
             /\ cache' = cache /\ admitted' = admitted]_vars

\* ------------------------------------------------- database connection
\* The pools constructed and not ended: one exists exactly when a create has
\* happened with no close since.
OpenPools == { i \in DOMAIN pools : pools[i].state = "open" }
DbCall(p, op) == pc[p] = "idle" /\ pc'[p] = "idle" /\ call'[p].op = op

\* C30: getDatabaseConnection returns a connection exactly when a create has
\* happened with no close since, and throws otherwise; a create without a
\* close since the last create returns that same connection and constructs no
\* pool; there is never more than one open pool, and a returned connection is
\* the one on the open pool.
C30_OneConnection ==
  /\ [](Cardinality(OpenPools) <= 1)
  /\ [][\A p \in Procs :
          /\ DbCall(p, "getDatabaseConnection")
             => IF OpenPools = {}
                  THEN call'[p].result = ErrNotInitialized /\ call'[p].db = Null
                ELSE /\ call'[p].result = Ok("")
                     /\ call'[p].db # Null /\ Val(call'[p].db).pool \in OpenPools
          /\ DbCall(p, "createDatabaseConnection")
             => /\ call'[p].db # Null /\ OpenPools' = { Val(call'[p].db).pool }
                /\ OpenPools # {} => pools' = pools /\ call'[p].db = dbConnection]_vars

\* After a create, a close and another create, getDatabaseConnection has
\* returned the connection on the second pool.
C30_Witness ==
  \E p \in Procs :
    /\ Returned(p, "getDatabaseConnection") /\ call[p].result = Ok("")
    /\ Len(pools) = 2 /\ pools[1].state = "ended"
    /\ call[p].db = Some([pool |-> 2])

\* ---------------------------------------------------- store failures
\* C13: when a query fails during login, refreshTokens or the validation of an
\* access token, the request's outcome is not an Unauthorized one.
C13_StoreFailureNotUnauthorized ==
  \A p \in Procs :
    pc[p] = "idle" /\ call[p].thrown = StoreError
    => call[p].result.status # "Unauthorized"

Spec == Init /\ [][Next]_vars
SpecReset == Init /\ [][NextReset]_vars
SpecPassword == Init /\ [][NextPassword]_vars
SpecToken == Init /\ [][NextToken]_vars
SpecConc == Init /\ [][NextConc]_vars
SpecResetConc == Init /\ [][NextResetConc]_vars
SpecIdentityConc == Init /\ [][NextIdentityConc]_vars
SpecStore == Init /\ [][NextStore]_vars
SpecDb == Init /\ [][NextDb]_vars
SpecRateConc == Init /\ [][NextRateConc]_vars
SpecProfile == Init /\ [][NextProfile]_vars
SpecRoles == Init /\ [][NextRoles]_vars
SpecSession == Init /\ [][NextSession]_vars
SpecResetAdmin == Init /\ [][NextResetAdmin]_vars
====
